---- MODULE Spec2Model ----
(***************************************************************************)
(* Citypulse: scripts/image_processor.py, TrafficImageProcessor.           *)
(* process_image and the classifier, processors, field extractors and      *)
(* colour segmenter it dispatches to, as a state machine.  Recognised text *)
(* is a sequence of one-character strings, so that substring tests and the *)
(* regular expressions of the source are computed character by character. *)
(***************************************************************************)
EXTENDS Integers, Sequences, FiniteSets, TLC

VARIABLES
    pc,                 \* where the current process_image call stands
    hint,               \* the image_type argument as the caller passed it
    image_type,         \* the local image_type (rebound by line 32)
    readable,           \* whether cv2.imread can decode the file at image_path
    detected,           \* the locals of _detect_image_type while it returns
    text,               \* the text the running processor got from pytesseract
    speeds,             \* the local speeds of _process_traffic_map (line 96)
    locations,          \* its local locations (line 100)
    colors,             \* the locals of _detect_traffic_colors while it returns
    traffic_conditions, \* the local traffic_conditions of _process_traffic_map
    exception,          \* the exception e caught by line 45, None before that
    result,             \* the value process_image returned, <<>> before that
    calls,              \* the methods entered by the current call, in order
    extracted_data,     \* self.extracted_data
    np_random_draws,    \* how far numpy's global generator has advanced
    upload_pc,          \* where the caller of process_image stands
    files,              \* upload_files: the list request.files.getlist('files')
    file_index,         \* the position of the for loop of line 75 in files
    results,            \* upload_files: the local results
    uploads,            \* the files present in UPLOAD_FOLDER
    saved,              \* the arguments of the calls of save_extracted_data
    visualized,         \* of create_visualization_from_extracted_data
    response            \* what the caller returned, <<>> before that

\* the state of the callers of process_image: web_app.upload_files and
\* process_uploaded_image
upload_vars ==
    <<upload_pc, files, file_index, results, uploads, saved, visualized,
      response>>

vars ==
    <<pc, hint, image_type, readable, detected, text, speeds, locations,
      colors, traffic_conditions, exception, result, calls,
      extracted_data, np_random_draws, upload_vars>>

-----------------------------------------------------------------------------
(* Bounds of the model.                                                    *)

\* Longest generated text, in vocabulary words.
MaxWords == 2

\* Largest raster, in pixels.
MaxPixels == 2

\* The draws from numpy's global generator are counted up to MaxDraws, which
\* stands for MaxDraws draws or more.
MaxDraws == 1

\* Most files in one upload request.
MaxFiles == 2

-----------------------------------------------------------------------------
(* Characters and Python string primitives.                                *)

UpperAlpha ==
    <<"A", "B", "C", "D", "E", "F", "G", "H", "I", "J", "K", "L", "M",
      "N", "O", "P", "Q", "R", "S", "T", "U", "V", "W", "X", "Y", "Z">>

LowerAlpha ==
    <<"a", "b", "c", "d", "e", "f", "g", "h", "i", "j", "k", "l", "m",
      "n", "o", "p", "q", "r", "s", "t", "u", "v", "w", "x", "y", "z">>

Digits ==
    <<"0", "1", "2", "3", "4", "5", "6", "7", "8", "9">>

Range(f) ==
    {f[i] : i \in DOMAIN f}

\* [A-Z]
IsUpper(c) ==
    c \in Range(UpperAlpha)

\* the character classes [a-z], \d and \s of the patterns
LowerClass ==
    Range(LowerAlpha)

DigitClass ==
    Range(Digits)

SpaceClass ==
    {" ", "\t", "\n"}

IsLower(c) ==
    c \in LowerClass

IsSpace(c) ==
    c \in SpaceClass

\* str.lower() on one character
LowerChar(c) ==
    IF IsUpper(c)
    THEN LowerAlpha[CHOOSE i \in DOMAIN UpperAlpha : UpperAlpha[i] = c]
    ELSE c

\* str.lower()
str_lower(s) ==
    [i \in DOMAIN s |-> LowerChar(s[i])]

\* Python's "kw in s" for strings: kw occurs in s as a contiguous substring
str_contains(s, kw) ==
    \E i \in 1..(Len(s) - Len(kw) + 1) : SubSeq(s, i, i + Len(kw) - 1) = kw

\* the position after the longest run of characters of a class starting at i
\* (a greedy c+ or c*: no pattern of the source can use a shorter run)
RunEnd(s, i, class) ==
    CHOOSE j \in i..(Len(s) + 1) :
        /\ j > Len(s) \/ s[j] \notin class
        /\ \A k \in i..(j - 1) : s[k] \in class

\* the value of a digit character
DigitValue(c) ==
    (CHOOSE i \in DOMAIN Digits : Digits[i] = c) - 1

\* int(s) for a string of digits
RECURSIVE py_int(_)
py_int(s) ==
    IF s = <<>> THEN 0
    ELSE 10 * py_int(SubSeq(s, 1, Len(s) - 1)) + DigitValue(s[Len(s)])

\* str.strip(): leading and trailing whitespace removed
RECURSIVE str_strip(_)
str_strip(s) ==
    IF s = <<>> THEN s
    ELSE IF IsSpace(s[1]) THEN str_strip(Tail(s))
    ELSE IF IsSpace(s[Len(s)]) THEN str_strip(SubSeq(s, 1, Len(s) - 1))
    ELSE s

\* str.split('\n')
RECURSIVE str_split_lines(_)
str_split_lines(s) ==
    IF \A i \in DOMAIN s : s[i] # "\n" THEN <<s>>
    ELSE LET k == CHOOSE i \in DOMAIN s :
                      s[i] = "\n" /\ \A j \in 1..(i - 1) : s[j] # "\n"
         IN <<SubSeq(s, 1, k - 1)>> \o str_split_lines(SubSeq(s, k + 1, Len(s)))

\* float(s) for a token of \d+(?:\.\d+)?: the integer part and the fraction
\* digits without trailing zeros, so that float("7.50") = float("7.5")
RECURSIVE StripTrailingZeros(_)
StripTrailingZeros(s) ==
    IF s # <<>> /\ s[Len(s)] = "0"
    THEN StripTrailingZeros(SubSeq(s, 1, Len(s) - 1))
    ELSE s

py_float(s) ==
    LET d == RunEnd(s, 1, DigitClass)
    IN [whole |-> py_int(SubSeq(s, 1, d - 1)),
        frac  |-> StripTrailingZeros(SubSeq(s, d + 1, Len(s)))]

-----------------------------------------------------------------------------
(* Field extractors: the regular expressions of the processors.            *)

SpeedUnits ==
    {<<"k", "m", "/", "h">>, <<"m", "p", "h">>, <<"k", "p", "h">>}

\* s has kw at position i, letter case ignored (re.IGNORECASE)
HasAtIgnoreCase(s, i, kw) ==
    /\ i + Len(kw) - 1 <= Len(s)
    /\ str_lower(SubSeq(s, i, i + Len(kw) - 1)) = kw

\* the leftmost of the positions where a pattern matches, 0 when it matches
\* nowhere: the order in which re.findall and re.search try positions
Leftmost(starts) ==
    IF starts = {} THEN 0
    ELSE CHOOSE j \in starts : \A k \in starts : j <= k

\* speed_pattern = r'(\d+)\s*(?:km/h|mph|kph)' tried at position i
MatchSpeedAt(s, i) ==
    LET d == RunEnd(s, i, DigitClass)
        u == RunEnd(s, d, SpaceClass)
    IN IF d > i /\ \E unit \in SpeedUnits : HasAtIgnoreCase(s, u, unit)
       THEN [matched |-> TRUE,
             group   |-> SubSeq(s, i, d - 1),
             stop    |-> u + Len(CHOOSE unit \in SpeedUnits :
                                     HasAtIgnoreCase(s, u, unit))]
       ELSE [matched |-> FALSE, group |-> <<>>, stop |-> i]

\* re.findall(speed_pattern, text, re.IGNORECASE) from position i on
RECURSIVE FindSpeedsFrom(_, _)
FindSpeedsFrom(s, i) ==
    LET j == Leftmost({k \in i..Len(s) : MatchSpeedAt(s, k).matched})
    IN IF j = 0 THEN <<>>
       ELSE <<MatchSpeedAt(s, j).group>>
                \o FindSpeedsFrom(s, MatchSpeedAt(s, j).stop)

find_speeds(s) ==
    FindSpeedsFrom(s, 1)

\* whether [A-Z][a-z]+ matches at position i
CapWordAt(s, i) ==
    /\ i + 1 <= Len(s)
    /\ IsUpper(s[i])
    /\ IsLower(s[i + 1])

\* the position after (?:\s+[A-Z][a-z]+)* tried at position i
RECURSIVE MoreCapWords(_, _)
MoreCapWords(s, i) ==
    LET w == RunEnd(s, i, SpaceClass)
    IN IF w > i /\ CapWordAt(s, w)
       THEN MoreCapWords(s, RunEnd(s, w + 1, LowerClass))
       ELSE i

\* location_pattern = r'([A-Z][a-z]+(?:\s+[A-Z][a-z]+)*)' tried at position i
MatchLocationAt(s, i) ==
    IF CapWordAt(s, i)
    THEN LET stop == MoreCapWords(s, RunEnd(s, i + 1, LowerClass))
         IN [matched |-> TRUE, group |-> SubSeq(s, i, stop - 1), stop |-> stop]
    ELSE [matched |-> FALSE, group |-> <<>>, stop |-> i]

\* re.findall(location_pattern, text) from position i on
RECURSIVE FindLocationsFrom(_, _)
FindLocationsFrom(s, i) ==
    LET j == Leftmost({k \in i..Len(s) : MatchLocationAt(s, k).matched})
    IN IF j = 0 THEN <<>>
       ELSE <<MatchLocationAt(s, j).group>>
                \o FindLocationsFrom(s, MatchLocationAt(s, j).stop)

find_locations(s) ==
    FindLocationsFrom(s, 1)

\* r'\d+(?:\.\d+)?' tried at position i
MatchNumberAt(s, i) ==
    LET d == RunEnd(s, i, DigitClass)
        f == IF d <= Len(s) /\ s[d] = "."
             THEN RunEnd(s, d + 1, DigitClass)
             ELSE d
        stop == IF f > d + 1 THEN f ELSE d
    IN IF d > i
       THEN [matched |-> TRUE, group |-> SubSeq(s, i, stop - 1), stop |-> stop]
       ELSE [matched |-> FALSE, group |-> <<>>, stop |-> i]

\* re.findall(r'\d+(?:\.\d+)?', text) from position i on
RECURSIVE FindNumbersFrom(_, _)
FindNumbersFrom(s, i) ==
    LET j == Leftmost({k \in i..Len(s) : MatchNumberAt(s, k).matched})
    IN IF j = 0 THEN <<>>
       ELSE <<MatchNumberAt(s, j).group>>
                \o FindNumbersFrom(s, MatchNumberAt(s, j).stop)

find_numbers(s) ==
    FindNumbersFrom(s, 1)

\* the position after a delimiter r'\s{2,}|\t' at position i, or i if none
DelimiterEnd(s, i) ==
    LET w == RunEnd(s, i, SpaceClass)
    IN IF w >= i + 2 THEN w
       ELSE IF i <= Len(s) /\ s[i] = "\t" THEN i + 1
       ELSE i

\* re.split(r'\s{2,}|\t', line): the cells from position i on
RECURSIVE SplitCellsFrom(_, _)
SplitCellsFrom(s, i) ==
    LET delimiters == {j \in i..Len(s) : DelimiterEnd(s, j) > j}
    IN IF delimiters = {} THEN <<SubSeq(s, i, Len(s))>>
       ELSE LET j == CHOOSE d \in delimiters : \A k \in delimiters : d <= k
            IN <<SubSeq(s, i, j - 1)>> \o SplitCellsFrom(s, DelimiterEnd(s, j))

split_cells(line) ==
    SplitCellsFrom(line, 1)

-----------------------------------------------------------------------------
(* Keyword lists of the classifier (lines 62-67).                          *)

TrafficKeywords ==
    {<<"s", "p", "e", "e", "d">>,
     <<"k", "m", "/", "h">>,
     <<"m", "p", "h">>,
     <<"t", "r", "a", "f", "f", "i", "c">>,
     <<"c", "o", "n", "g", "e", "s", "t", "i", "o", "n">>}

MapKeywords ==
    {<<"m", "a", "p">>,
     <<"r", "o", "u", "t", "e">>,
     <<"n", "a", "v", "i", "g", "a", "t", "i", "o", "n">>,
     <<"s", "t", "r", "e", "e", "t">>}

ChartKeywords ==
    {<<"c", "h", "a", "r", "t">>,
     <<"g", "r", "a", "p", "h">>,
     <<"d", "a", "t", "a">>,
     <<"t", "i", "m", "e">>}

LiveKeywords ==
    {<<"c", "a", "m", "e", "r", "a">>,
     <<"l", "i", "v", "e">>,
     <<"c", "u", "r", "r", "e", "n", "t">>}

\* any(keyword in text for keyword in keywords)
any_keyword_in(s, keywords) ==
    \E keyword \in keywords : str_contains(s, keyword)

-----------------------------------------------------------------------------
(* Recognised texts: what pytesseract.image_to_string may return.          *)

W_Main ==
    <<"M", "a", "i", "n">>
W_speedtok ==
    <<"4", "5", "k", "m", "/", "h">>
W_map ==
    <<"m", "a", "p">>
W_chart ==
    <<"c", "h", "a", "r", "t">>
W_live ==
    <<"l", "i", "v", "e">>
T_spec_example ==
    <<"s", "p", "e", "e", "d", " ", "4", "5", " ", "k", "m", "/", "h", " ",
      "t", "r", "a", "f", "f", "i", "c", " ", "m", "a", "p", " ", "d", "o",
      "w", "n", "t", "o", "w", "n">>
T_upper ==
    <<"S", "P", "E", "E", "D", " ", "L", "i", "m", "i", "t", " ", "R", "o",
      "u", "t", "e">>
T_priority_map ==
    <<"t", "r", "a", "f", "f", "i", "c", " ", "c", "h", "a", "r", "t", " ",
      "l", "i", "v", "e", " ", "m", "a", "p">>
T_priority_chart ==
    <<"c", "o", "n", "g", "e", "s", "t", "i", "o", "n", " ", "l", "i", "v",
      "e", " ", "g", "r", "a", "p", "h">>
T_camera ==
    <<"m", "p", "h", " ", "c", "a", "m", "e", "r", "a">>
T_traffic_only ==
    <<"t", "r", "a", "f", "f", "i", "c", " ", "1", "2">>
T_six_locations ==
    <<"A", "s", "h", " ", "1", "0", "m", "p", "h", ",", " ", "E", "l", "m",
      " ", "2", "0", " ", "k", "p", "h", ",", " ", "O", "a", "k", " ", "0",
      "3", "0", " ", "K", "M", "/", "H", ",", " ", "F", "i", "r", " ", "4",
      "0", "m", "p", "h", ",", " ", "Y", "e", "w", ",", " ", "B", "a", "y">>
T_speeds_no_loc ==
    <<"5", " ", "m", "p", "h", " ", "6", "0", "k", "m", "/", "h">>
T_many_numbers ==
    <<"1", " ", "2", ".", "5", " ", "3", " ", "4", " ", "5", " ", "6", " ",
      "7", " ", "8", " ", "9", " ", "1", "0", " ", "1", "1", " ", "1", "2",
      " ", "1", "3", " ", "1", "4", " ", "1", "5", " ", "1", "6", " ", "1",
      "7", " ", "1", "8", " ", "1", "9", " ", "2", "0", " ", "2", "1", " ",
      "2", "2", " ", "2", "3", " ", "2", "4", " ", "2", "5", ".", "0">>
T_table ==
    <<"N", "a", "m", "e", " ", " ", "S", "p", "e", "e", "d", "\n", "A", " ",
      " ", "4", "5", "\n", "B", " ", " ", "3", "0">>
T_table_wide_row ==
    <<"N", "a", "m", "e", " ", " ", "S", "p", "e", "e", "d", "\n", "A", " ",
      " ", "4", "5", " ", " ", "x", "\n", "B", " ", " ", "3", "0">>
T_table_short_rows ==
    <<"N", "a", "m", "e", " ", " ", "S", "p", "e", "e", "d", " ", " ", "L",
      "a", "n", "e", "\n", "A", " ", " ", "4", "5", "\n", "B", " ", " ", "3",
      "0">>
\* "Name  Speed  Lane\nA  45  L\nB  30": the last row is one cell short
T_table_ragged ==
    <<"N", "a", "m", "e", " ", " ", "S", "p", "e", "e", "d", " ", " ", "L",
      "a", "n", "e", "\n", "A", " ", " ", "4", "5", " ", " ", "L", "\n", "B",
      " ", " ", "3", "0">>
T_table_one_line ==
    <<"N", "a", "m", "e", " ", " ", "S", "p", "e", "e", "d">>
T_table_tabs ==
    <<" ", "R", "o", "a", "d", "\t", "L", "e", "v", "e", "l", " ", "\n",
      "\n", "M", "a", "i", "n", " ", "S", "t", "\t", "h", "e", "a", "v", "y",
      "\n", "n", "o", "t", "e", "\n">>
\* words of all three traffic levels, the heavy one last
T_levels_all ==
    <<"G", "o", "o", "d", " ", "r", "o", "a", "d", ",", " ", "m", "e", "d",
      "i", "u", "m", ",", " ", "S", "L", "O", "W">>
\* a moderate word before a light one
T_levels_two ==
    <<"M", "e", "d", "i", "u", "m", " ", "c", "l", "e", "a", "r">>
\* the name of the third application
T_apple ==
    <<"A", "p", "p", "l", "e", " ", "M", "a", "p", "s", " ", "7", " ", "m",
      "i", "n">>
T_screenshot ==
    <<"G", "o", "o", "g", "l", "e", " ", "M", "a", "p", "s", " ", "1", "2",
      " ", "m", "i", "n", " ", "3", ".", "4", " ", "k", "m", " ", "h", "e",
      "a", "v", "y">>
T_waze ==
    <<"w", "a", "z", "e", " ", "5", " ", "h", "r", "s", " ", "c", "l", "e",
      "a", "r", "\n">>

Vocabulary ==
    {W_Main, W_speedtok, W_map, W_chart, W_live}

\* the texts of exactly n vocabulary words separated by single spaces
RECURSIVE WordTexts(_)
WordTexts(n) ==
    IF n = 0 THEN {}
    ELSE IF n = 1 THEN Vocabulary
    ELSE {t \o <<" ">> \o w : t \in WordTexts(n - 1), w \in Vocabulary}

GeneratedTexts ==
    UNION {WordTexts(n) : n \in 0..MaxWords}

\* every keyword alone, and every traffic keyword followed by another keyword
KeywordTexts ==
    LET others == MapKeywords \cup ChartKeywords \cup LiveKeywords
    IN TrafficKeywords \cup others
           \cup {t \o <<" ">> \o o : t \in TrafficKeywords, o \in others}

FixtureTexts ==
    {<<>>, T_spec_example, T_upper, T_priority_map, T_priority_chart,
     T_camera, T_traffic_only, T_six_locations, T_speeds_no_loc,
     T_many_numbers, T_table, T_table_wide_row, T_table_short_rows,
     T_table_ragged, T_table_one_line, T_table_tabs, T_levels_all,
     T_levels_two, T_apple, T_screenshot, T_waze}

Texts ==
    GeneratedTexts \cup KeywordTexts \cup FixtureTexts

-----------------------------------------------------------------------------
(* Python values.  A value that may be None is a set: None is the empty    *)
(* set and a present value v is {v}.  Tags written as literals in the      *)
(* source ('chart', 'Good') are strings; recognised text is a sequence of  *)
(* characters.                                                             *)

None ==
    {}

Some(v) ==
    {v}

\* datetime.now().isoformat(): the wall clock is not modelled
Timestamp ==
    "timestamp"

Min(a, b) ==
    IF a <= b THEN a ELSE b

\* list[:n]
py_slice_to(list, n) ==
    SubSeq(list, 1, Min(n, Len(list)))

\* a repetition that comes out one copy short
py_list_times_short(list, n) ==
    IF n <= 1 THEN <<>>
    ELSE [i \in 1..((n - 1) * Len(list)) |-> list[((i - 1) % Len(list)) + 1]]

\* list * n
RECURSIVE py_list_times(_, _)
py_list_times(list, n) ==
    IF n <= 0 THEN <<>> ELSE list \o py_list_times(list, n - 1)

-----------------------------------------------------------------------------
(* Colour segmenter: _detect_traffic_colors (lines 237-268).  A raster is  *)
(* the HSV image of line 242, a sequence of pixels <<hue, sat, val>>.      *)

LocationLimit == 5

ChartLimit == 24

ConditionCopies == 5

green_range ==
    <<<<40, 50, 50>>, <<80, 255, 255>>>>

yellow_range ==
    <<<<20, 50, 50>>, <<40, 255, 255>>>>

red_range ==
    <<<<0, 50, 50>>, <<10, 255, 255>>>>

\* cv2.inRange: 255 where every channel lies in [lower, upper], both ends
\* included, and 0 elsewhere
cv2_inRange(raster, range) ==
    [i \in DOMAIN raster |->
        IF \A c \in 1..3 : /\ range[1][c] <= raster[i][c]
                           /\ raster[i][c] <= range[2][c]
        THEN 255 ELSE 0]

\* cv2.countNonZero
cv2_countNonZero(mask) ==
    Cardinality({i \in DOMAIN mask : mask[i] # 0})

\* the dominant-condition test with >= in place of >
dominant_condition_nonstrict(green_pixels, yellow_pixels, red_pixels) ==
    IF red_pixels >= green_pixels /\ red_pixels >= yellow_pixels
    THEN <<"Congested">>
    ELSE IF yellow_pixels >= green_pixels
    THEN <<"Moderate">>
    ELSE <<"Good">>

\* lines 260-266: the list `conditions` after the dominant-condition test
dominant_condition(green_pixels, yellow_pixels, red_pixels) ==
    IF red_pixels > green_pixels /\ red_pixels > yellow_pixels
    THEN <<"Congested">>
    ELSE IF yellow_pixels > green_pixels
    THEN <<"Moderate">>
    ELSE <<"Good">>

\* the locals of _detect_traffic_colors at its return and the value returned
detect_traffic_colors(raster) ==
    LET green_mask == cv2_inRange(raster, green_range)
        yellow_mask == cv2_inRange(raster, yellow_range)
        red_mask == cv2_inRange(raster, red_range)
        green_pixels == cv2_countNonZero(green_mask)
        yellow_pixels == cv2_countNonZero(yellow_mask)
        red_pixels == cv2_countNonZero(red_mask)
    IN [hsv           |-> raster,
        green_mask    |-> green_mask,
        yellow_mask   |-> yellow_mask,
        red_mask      |-> red_mask,
        green_pixels  |-> green_pixels,
        yellow_pixels |-> yellow_pixels,
        red_pixels    |-> red_pixels,
        returned      |->
            py_list_times(
                dominant_condition(green_pixels, yellow_pixels, red_pixels),
                ConditionCopies)]

\* HSV pixels at and around the edges of the three ranges
Palette ==
    {<<0, 255, 255>>, <<10, 50, 50>>, <<15, 255, 255>>, <<20, 50, 50>>,
     <<30, 255, 255>>, <<40, 255, 255>>, <<60, 255, 255>>, <<80, 255, 255>>,
     <<60, 49, 255>>}

\* a pixel as one number, hue first
PixelKey(pixel) ==
    (pixel[1] * 256 + pixel[2]) * 256 + pixel[3]

\* the rasters of 1..MaxPixels pixels; the segmenter only counts pixels, so
\* one raster stands for all the orders of its pixels
Rasters ==
    {raster \in UNION {[1..n -> Palette] : n \in 1..MaxPixels} :
         \A i \in 1..(Len(raster) - 1) :
             PixelKey(raster[i]) <= PixelKey(raster[i + 1])}

-----------------------------------------------------------------------------
(* Structure detector: _detect_table_structure (lines 270-285) and         *)
(* _detect_chart_type (lines 287-311).  The morphology and contour results *)
(* are inputs; the thresholds are the code's.                              *)

\* values of cv2.countNonZero(horizontal_lines), (vertical_lines)
LineCounts ==
    {0, 100, 101}

\* line 285
detect_table_structure(h_lines, v_lines) ==
    h_lines > 100 /\ v_lines > 100

\* values of `rectangles` (lines 301-306)
RectangleCounts ==
    {5, 6}

\* lines 296-311: circles_found is "circles is not None"
detect_chart_type(circles_found, rectangles) ==
    IF circles_found THEN "pie_chart"
    ELSE IF rectangles > 5 THEN "bar_chart"
    ELSE "line_chart"

-----------------------------------------------------------------------------
(* Image classifier: _detect_image_type (lines 59-74) on the lowercased    *)
(* text of line 59 and the line counts of the grayscale image.             *)

\* the keyword tests without the camera/live/current branch
keyword_label_without_live(lowered) ==
    IF any_keyword_in(lowered, TrafficKeywords)
    THEN IF any_keyword_in(lowered, MapKeywords) THEN "traffic_map"
         ELSE IF any_keyword_in(lowered, ChartKeywords) THEN "chart"
         ELSE ""
    ELSE ""

\* lines 62-68: the label returned by the keyword tests, "" when none of
\* them returns
keyword_label(lowered) ==
    IF any_keyword_in(lowered, TrafficKeywords)
    THEN IF any_keyword_in(lowered, MapKeywords) THEN "traffic_map"
         ELSE IF any_keyword_in(lowered, ChartKeywords) THEN "chart"
         ELSE IF any_keyword_in(lowered, LiveKeywords) THEN "screenshot"
         ELSE ""
    ELSE ""

\* the classifier with the table check ahead of the keyword tests
detect_image_type_table_first(lowered, h_lines, v_lines) ==
    IF detect_table_structure(h_lines, v_lines) THEN "table"
    ELSE IF keyword_label(lowered) # "" THEN keyword_label(lowered)
    ELSE "chart"

\* a classifier whose default label is generic
detect_image_type_default_generic(lowered, h_lines, v_lines) ==
    IF keyword_label(lowered) # "" THEN keyword_label(lowered)
    ELSE IF detect_table_structure(h_lines, v_lines) THEN "table"
    ELSE "generic"

\* lines 62-74
detect_image_type(lowered, h_lines, v_lines) ==
    IF keyword_label(lowered) # "" THEN keyword_label(lowered)
    ELSE IF detect_table_structure(h_lines, v_lines) THEN "table"
    ELSE "chart"

-----------------------------------------------------------------------------
(* _extract_traffic_info (lines 313-343) and the app-type test (161-168).  *)

TimeUnits ==
    {<<"m", "i", "n">>,
     <<"m", "i", "n", "u", "t", "e", "s">>,
     <<"h", "r", "s">>,
     <<"h", "o", "u", "r", "s">>}

DistanceUnits ==
    {<<"k", "m">>,
     <<"m", "i", "l", "e", "s">>,
     <<"m", "i">>}

HeavyWords ==
    {<<"h", "e", "a", "v", "y">>,
     <<"c", "o", "n", "g", "e", "s", "t", "e", "d">>,
     <<"s", "l", "o", "w">>}

ModerateWords ==
    {<<"m", "o", "d", "e", "r", "a", "t", "e">>,
     <<"m", "e", "d", "i", "u", "m">>}

LightWords ==
    {<<"l", "i", "g", "h", "t">>,
     <<"c", "l", "e", "a", "r">>,
     <<"g", "o", "o", "d">>}

\* time_pattern = r'(\d+)\s*(?:min|minutes|hrs|hours)' tried at position i
MatchTimeAt(s, i) ==
    LET d == RunEnd(s, i, DigitClass)
        u == RunEnd(s, d, SpaceClass)
    IN [matched |-> /\ d > i
                    /\ \E unit \in TimeUnits : HasAtIgnoreCase(s, u, unit),
        group   |-> SubSeq(s, i, d - 1)]

\* distance_pattern = r'(\d+(?:\.\d+)?)\s*(?:km|miles|mi)' tried at position i
MatchDistanceAt(s, i) ==
    LET n == MatchNumberAt(s, i)
        u == RunEnd(s, n.stop, SpaceClass)
    IN [matched |-> /\ n.matched
                    /\ \E unit \in DistanceUnits : HasAtIgnoreCase(s, u, unit),
        group   |-> n.group]

\* lines 325-327: re.search(time_pattern, text, re.IGNORECASE), group(1) of
\* the leftmost match and None when there is none
search_time(s) ==
    LET j == Leftmost({k \in 1..Len(s) : MatchTimeAt(s, k).matched})
    IN IF j = 0 THEN None ELSE Some(MatchTimeAt(s, j).group)

\* lines 331-333: re.search(distance_pattern, text, re.IGNORECASE)
search_distance(s) ==
    LET j == Leftmost({k \in 1..Len(s) : MatchDistanceAt(s, k).matched})
    IN IF j = 0 THEN None ELSE Some(MatchDistanceAt(s, j).group)

\* the three tests of lines 335-341 taken in the opposite order
traffic_level_light_first(s) ==
    IF any_keyword_in(str_lower(s), LightWords) THEN Some("Light")
    ELSE IF any_keyword_in(str_lower(s), ModerateWords) THEN Some("Moderate")
    ELSE IF any_keyword_in(str_lower(s), HeavyWords) THEN Some("Heavy")
    ELSE None

\* lines 335-341
traffic_level(s) ==
    IF any_keyword_in(str_lower(s), HeavyWords) THEN Some("Heavy")
    ELSE IF any_keyword_in(str_lower(s), ModerateWords) THEN Some("Moderate")
    ELSE IF any_keyword_in(str_lower(s), LightWords) THEN Some("Light")
    ELSE None

extract_traffic_info(s) ==
    [estimated_time |-> search_time(s),
     distance       |-> search_distance(s),
     traffic_level  |-> traffic_level(s)]

\* lines 162-168
detect_app_type(s) ==
    IF \/ str_contains(str_lower(s), <<"g", "o", "o", "g", "l", "e", " ",
                                        "m", "a", "p", "s">>)
       \/ str_contains(str_lower(s), <<"m", "a", "p", "s">>)
    THEN "google_maps"
    ELSE IF str_contains(str_lower(s), <<"w", "a", "z", "e">>)
    THEN "waze"
    ELSE IF str_contains(str_lower(s), <<"a", "p", "p", "l", "e", " ",
                                         "m", "a", "p", "s">>)
    THEN "apple_maps"
    ELSE "unknown"

-----------------------------------------------------------------------------
(* Type-specific processors: the value each returns for the text it read.  *)

\* a random integer with the upper end included
np_random_randint_inclusive(low, high) ==
    low..high

\* np.random.randint(low, high): low <= value < high
np_random_randint(low, high) ==
    low..(high - 1)

\* how many times the loop of lines 106-112 calls np.random.randint
fallback_draws(location_matches, speed_matches) ==
    LET n == Len(py_slice_to(location_matches, LocationLimit))
    IN IF n > Len(speed_matches) THEN n - Len(speed_matches) ELSE 0

\* lines 106-112 from the i-th entry of first = locations[:5] on; rand holds
\* the values the remaining calls of np.random.randint return, in order
RECURSIVE CombineFrom(_, _, _, _, _, _)
CombineFrom(i, first, speed_matches, conditions, rand, traffic_data) ==
    IF i > Len(first) THEN traffic_data
    ELSE LET has_speed == i <= Len(speed_matches)
             speed == IF has_speed THEN py_int(speed_matches[i])
                      ELSE Head(rand)
             condition == IF i <= Len(conditions) THEN conditions[i]
                          ELSE "Moderate"
         IN CombineFrom(
                i + 1, first, speed_matches, conditions,
                IF has_speed THEN rand ELSE Tail(rand),
                [traffic_data EXCEPT
                    !.locations = Append(@, first[i]),
                    !.speeds = Append(@, speed),
                    !.conditions = Append(@, condition)])

\* _process_traffic_map, lines 87-92 and 105-118
process_traffic_map(location_matches, speed_matches, conditions, rand) ==
    LET traffic_data ==
            CombineFrom(
                1, py_slice_to(location_matches, LocationLimit),
                speed_matches, conditions, rand,
                [locations |-> <<>>, speeds |-> <<>>, conditions |-> <<>>,
                 timestamp |-> Timestamp])
    IN [type            |-> "traffic_map",
        data            |-> Some(traffic_data),
        extracted_count |-> Len(traffic_data.locations)]

\* a chart processor that keeps every number it finds
process_chart_unlimited(s, chart_type) ==
    LET tokens == find_numbers(s)
        numbers == [i \in DOMAIN tokens |-> py_float(tokens[i])]
        chart_data ==
            [values     |-> numbers,
             labels     |-> [i \in 1..Len(numbers) |-> <<"Hour ", i - 1>>],
             chart_type |-> chart_type,
             timestamp  |-> Timestamp]
    IN [type            |-> "chart",
        data            |-> Some(chart_data),
        extracted_count |-> Len(chart_data.values)]

\* _process_chart, lines 131-150; a label f'Hour {i}' is <<"Hour ", i>>
process_chart(s, chart_type) ==
    LET tokens == find_numbers(s)
        numbers == [i \in DOMAIN tokens |-> py_float(tokens[i])]
        values == py_slice_to(numbers, ChartLimit)
        chart_data ==
            [values     |-> values,
             labels     |-> [i \in 1..Len(py_slice_to(numbers, ChartLimit)) |->
                                <<"Hour ", i - 1>>],
             chart_type |-> chart_type,
             timestamp  |-> Timestamp]
    IN [type            |-> "chart",
        data            |-> Some(chart_data),
        extracted_count |-> Len(chart_data.values)]

\* _process_screenshot, lines 162-181
process_screenshot(s) ==
    LET app_type == detect_app_type(s)
        screenshot_data ==
            [app_type     |-> app_type,
             traffic_info |-> extract_traffic_info(s),
             timestamp    |-> Timestamp]
    IN [type         |-> "screenshot",
        data         |-> Some(screenshot_data),
        app_detected |-> app_type]

\* lines 194-202: the cells of every non-empty line that has more than one
RECURSIVE ParseTable(_)
ParseTable(lines) ==
    IF lines = <<>> THEN <<>>
    ELSE LET line == Head(lines)
             cells == split_cells(str_strip(line))
         IN IF str_strip(line) # <<>> /\ Len(cells) > 1
            THEN <<cells>> \o ParseTable(Tail(lines))
            ELSE ParseTable(Tail(lines))

parse_table(s) ==
    ParseTable(str_split_lines(str_strip(s)))

\* the widest row of a list of rows
MaxRowLen(rows) ==
    IF rows = <<>> THEN 0
    ELSE CHOOSE n \in {Len(rows[i]) : i \in DOMAIN rows} :
             \A i \in DOMAIN rows : Len(rows[i]) <= n

\* pd.DataFrame(rows, columns=columns) raises ValueError unless the widest
\* row has as many cells as there are columns (shorter rows are padded)
pd_DataFrame_raises(rows, columns) ==
    MaxRowLen(rows) # Len(columns)

\* df.to_dict('records'): one dict per row; a padded cell is None and a
\* repeated column name keeps its last cell
df_to_dict_records(rows, columns) ==
    [r \in DOMAIN rows |->
        [name \in Range(columns) |->
            LET j == CHOOSE k \in DOMAIN columns :
                         /\ columns[k] = name
                         /\ \A m \in DOMAIN columns :
                                columns[m] = name => m <= k
            IN IF j <= Len(rows[r]) THEN Some(rows[r][j]) ELSE None]]

\* _process_table, lines 194-218; raised tells that line 206 raised
process_table(s) ==
    LET table_data == parse_table(s)
    IN IF table_data # <<>> /\ Len(table_data) > 1
       THEN IF pd_DataFrame_raises(Tail(table_data), Head(table_data))
            THEN [raised |-> TRUE, value |-> <<>>]
            ELSE [raised |-> FALSE,
                  value  |->
                      [type    |-> "table",
                       data    |-> Some(df_to_dict_records(Tail(table_data),
                                                           Head(table_data))),
                       columns |-> Head(table_data),
                       rows    |-> Len(Tail(table_data))]]
       ELSE [raised |-> FALSE,
             value  |->
                 [type  |-> "table",
                  data  |-> Some(<<>>),
                  error |-> <<"No valid table structure detected">>]]

\* _generic_ocr_processing, lines 228-235
generic_ocr_processing(s) ==
    LET numbers == find_numbers(s)
    IN [type            |-> "generic",
        text            |-> s,
        numbers         |-> [i \in DOMAIN numbers |-> py_float(numbers[i])],
        extracted_count |-> Len(numbers)]

-----------------------------------------------------------------------------
(* The callers of process_image: upload_files (web_app.py, lines 60-132)   *)
(* and process_uploaded_image (image_processor.py, lines 442-470), with    *)
(* the two hooks they call on a result, save_extracted_data (lines         *)
(* 345-361) and create_visualization_from_extracted_data (lines 363-374).  *)

\* web_app.py line 25
ALLOWED_EXTENSIONS ==
    {<<"p", "n", "g">>,
     <<"j", "p", "g">>,
     <<"j", "p", "e", "g">>,
     <<"g", "i", "f">>,
     <<"b", "m", "p">>,
     <<"t", "i", "f", "f">>,
     <<"p", "d", "f">>}

\* the position of the last '.' of filename, 0 when it has none
LastDot(filename) ==
    LET dots == {i \in DOMAIN filename : filename[i] = "."}
    IN IF dots = {} THEN 0
       ELSE CHOOSE i \in dots : \A j \in dots : j <= i

\* an extension test that does not fold the letter case
allowed_file_case_sensitive(filename) ==
    /\ LastDot(filename) # 0
    /\ SubSeq(filename, LastDot(filename) + 1, Len(filename))
           \in ALLOWED_EXTENSIONS

\* web_app.py lines 27-28
allowed_file(filename) ==
    /\ LastDot(filename) # 0
    /\ str_lower(SubSeq(filename, LastDot(filename) + 1, Len(filename)))
           \in ALLOWED_EXTENSIONS

\* werkzeug's secure_filename (web_app.py line 78) on the names of the
\* model: a path separator becomes an underscore
secure_filename(filename) ==
    [i \in DOMAIN filename |->
        IF filename[i] = "/" THEN "_" ELSE filename[i]]

\* web_app.py lines 78-83: where the upload is stored
upload_filepath(filename) ==
    <<"../uploads", Timestamp, "_", secure_filename(filename)>>

\* d[key] = value
py_dict_set(d, key, value) ==
    [k \in DOMAIN d \cup {key} |-> IF k = key THEN value ELSE d[k]]

\* open(path, 'w') raises FileNotFoundError when the directory of path does
\* not exist: a name with a separator points below RESULTS_FOLDER
open_raises(filename) ==
    \E i \in DOMAIN filename : filename[i] = "/"

FileNotFoundError ==
    "[Errno 2] No such file or directory"

\* lines 426-439: no figure for an empty table; the cells of a recognised
\* table are str, so no column of the frame is numeric and line 439 returns
\* None
create_table_viz(data) ==
    IF data = <<>> THEN None
    ELSE LET numeric_columns == {}
         IN IF numeric_columns # {} THEN Some([figure |-> "bar"]) ELSE None

\* lines 367-374; a plotly figure is a record
create_visualization_from_extracted_data(processed_data) ==
    IF processed_data.type = "traffic_map"
    THEN Some([figure |-> "traffic_map"])
    ELSE IF processed_data.type = "chart"
    THEN Some([figure |-> "chart"])
    ELSE IF processed_data.type = "table"
    THEN create_table_viz(CHOOSE d \in processed_data.data : TRUE)
    ELSE None

\* lines 349-361: the extension of the file save_extracted_data writes
save_extracted_data(processed_data) ==
    IF processed_data.type \in {"traffic_map", "chart", "table"}
    THEN ".csv" ELSE ".json"

\* web_app.py lines 89-114 for the result of process_image on the file
\* named filename: the entry appended to results and the arguments of the
\* two hooks
upload_entry(processed, filename) ==
    LET stamped == py_dict_set(py_dict_set(processed, "filename", filename),
                               "processed_at", Timestamp)
        save_path == <<"../data/extracted", "extracted_", Timestamp, "_",
                       filename, ".csv">>
        with_data == py_dict_set(stamped, "data_file", save_path)
        viz == create_visualization_from_extracted_data(with_data)
        viz_path == <<"../data/extracted", "viz_", Timestamp, "_", filename,
                      ".html">>
    IN IF "error" \in DOMAIN stamped
       THEN [entry |-> stamped, saved |-> <<>>, visualized |-> <<>>]
       ELSE IF open_raises(filename)
       THEN [entry      |-> [filename     |-> filename,
                             error        |-> <<"Processing failed: ",
                                                FileNotFoundError>>,
                             processed_at |-> Timestamp],
             saved      |-> <<stamped>>,
             visualized |-> <<>>]
       ELSE [entry      |-> IF viz # None
                            THEN py_dict_set(with_data, "visualization_file",
                                             viz_path)
                            ELSE with_data,
             saved      |-> <<stamped>>,
             visualized |-> <<with_data>>]

\* image_processor.py lines 451-470: what process_uploaded_image returns and
\* the arguments of the two hooks
process_uploaded_image(processed) ==
    LET output_file == <<"../data/extracted/", "extracted_data_", Timestamp,
                         ".csv">>
        viz_file == <<"../data/extracted/", "extracted_viz_", Timestamp,
                      ".html">>
        fig == create_visualization_from_extracted_data(processed)
        with_viz == IF fig # None
                    THEN py_dict_set(processed, "visualization", viz_file)
                    ELSE processed
    IN IF "error" \notin DOMAIN processed
       THEN [returned   |-> py_dict_set(with_viz, "output_file", output_file),
             saved      |-> <<processed>>,
             visualized |-> <<processed>>]
       ELSE [returned |-> processed, saved |-> <<>>, visualized |-> <<>>]

-----------------------------------------------------------------------------
(* The files at hand.  A caller names a file of a small collection; what   *)
(* the libraries read from a file is fixed by the file.                    *)

F_map ==
    <<"m", "a", "p", ".", "p", "n", "g">>
F_chart ==
    <<"c", "h", "a", "r", "t", ".", "J", "P", "G">>
F_shot ==
    <<"s", "h", "o", "t", ".", "j", "p", "e", "g">>
F_table ==
    <<"t", "a", "b", "l", "e", ".", "b", "m", "p">>
F_blank ==
    <<"b", "l", "a", "n", "k", ".", "t", "i", "f", "f">>
F_pdf ==
    <<"d", "o", "c", ".", "p", "d", "f">>
F_txt ==
    <<"n", "o", "t", "e", "s", ".", "t", "x", "t">>
F_slash ==
    <<"d", "/", "e", ".", "p", "n", "g">>
F_noname ==
    <<>>

Filenames ==
    {F_map, F_chart, F_shot, F_table, F_blank, F_pdf, F_txt, F_slash,
     F_noname}

\* what cv2 and pytesseract get from the file of that name
image_at(filename) ==
    LET image(r, t, pixel, lines) ==
            [readable |-> r, text |-> t, hsv |-> <<pixel>>,
             h_lines |-> lines, v_lines |-> lines,
             circles_found |-> FALSE, rectangles |-> 6]
    IN CASE filename = F_map ->
                image(TRUE, T_spec_example, <<0, 255, 255>>, 0)
         [] filename = F_chart ->
                image(TRUE, T_many_numbers, <<60, 255, 255>>, 0)
         [] filename = F_shot ->
                image(TRUE, T_camera, <<30, 255, 255>>, 0)
         [] filename = F_table ->
                image(TRUE, T_table, <<15, 255, 255>>, 101)
         [] filename = F_blank ->
                image(TRUE, <<>>, <<15, 255, 255>>, 101)
         [] filename = F_slash ->
                image(TRUE, T_many_numbers, <<60, 255, 255>>, 0)
         [] OTHER ->
                image(FALSE, <<>>, <<15, 255, 255>>, 0)

\* request.files.getlist('files') of a request that has the field
FileLists ==
    UNION {[1..n -> Filenames] : n \in 1..MaxFiles}

\* a caller that names a file of the collection is running process_image
ReadsUpload ==
    upload_pc \in {"processing", "process_uploaded_image"}

\* the values the library calls of the processor return: those of the file
\* when the caller named one, any of the model's otherwise
OcrTexts ==
    IF ReadsUpload THEN {image_at(files[file_index]).text} ELSE Texts

HsvRasters ==
    IF ReadsUpload THEN {image_at(files[file_index]).hsv} ELSE Rasters

HLineCounts ==
    IF ReadsUpload THEN {image_at(files[file_index]).h_lines}
    ELSE LineCounts

VLineCounts ==
    IF ReadsUpload THEN {image_at(files[file_index]).v_lines}
    ELSE LineCounts

CirclesFound ==
    IF ReadsUpload THEN {image_at(files[file_index]).circles_found}
    ELSE BOOLEAN

RectanglesFound ==
    IF ReadsUpload THEN {image_at(files[file_index]).rectangles}
    ELSE RectangleCounts

-----------------------------------------------------------------------------
(* process_image (lines 26-46) as a state machine.                         *)

\* values of the image_type argument: the five documented hints and two
\* strings outside them
Hints ==
    {"auto", "traffic_map", "chart", "screenshot", "table", "generic",
     "heatmap"}

\* str(e) of the exceptions the calls of the source raise
Cv2Error ==
    "OpenCV: (-215:Assertion failed) !_src.empty() in function 'cvtColor'"

UnsupportedImage ==
    "Unsupported image object"

TesseractError ==
    "tesseract failed"

ValueError ==
    "columns passed, passed data had a different number of columns"

NoFrame ==
    <<>>

\* an except clause that lets the exception through to the caller
except_handler_reraise(e) ==
    [pc |-> "raised", result |-> <<>>]

\* lines 45-46: where an exception raised inside the try block leaves the
\* call; the message f'Processing failed: {str(e)}' is its two parts
except_handler(e) ==
    [pc     |-> "returned",
     result |-> [error |-> <<"Processing failed: ", e>>, data |-> None]]

\* dispatch with the table branch calling the chart processor
dispatch_table_as_chart(type) ==
    IF type = "traffic_map" THEN "_process_traffic_map"
    ELSE IF type = "chart" THEN "_process_chart"
    ELSE IF type = "screenshot" THEN "_process_screenshot"
    ELSE IF type = "table" THEN "_process_chart"
    ELSE "_generic_ocr_processing"

\* dispatch with the final else falling back to the chart processor
dispatch_default_chart(type) ==
    IF type = "traffic_map" THEN "_process_traffic_map"
    ELSE IF type = "screenshot" THEN "_process_screenshot"
    ELSE IF type = "table" THEN "_process_table"
    ELSE "_process_chart"

\* lines 34-43: the method the if/elif chain calls
dispatch(type) ==
    IF type = "traffic_map" THEN "_process_traffic_map"
    ELSE IF type = "chart" THEN "_process_chart"
    ELSE IF type = "screenshot" THEN "_process_screenshot"
    ELSE IF type = "table" THEN "_process_table"
    ELSE "_generic_ocr_processing"

\* line 31: whether the classifier runs
wants_detection(type) ==
    type = "auto"

Init ==
    /\ pc = "idle"
    /\ hint = ""
    /\ image_type = ""
    /\ readable = TRUE
    /\ detected = NoFrame
    /\ text = <<>>
    /\ speeds = <<>>
    /\ locations = <<>>
    /\ colors = NoFrame
    /\ traffic_conditions = <<>>
    /\ exception = None
    /\ result = <<>>
    /\ calls = <<>>
    /\ extracted_data = <<>>
    /\ np_random_draws = 0
    /\ upload_pc = "idle"
    /\ files = <<>>
    /\ file_index = 0
    /\ results = <<>>
    /\ uploads = {}
    /\ saved = <<>>
    /\ visualized = <<>>
    /\ response = <<>>

\* an exception e propagates to line 45
Raise(e) ==
    /\ exception' = Some(e)
    /\ pc' = except_handler(e).pc
    /\ result' = except_handler(e).result

\* process_image(image_path, image_type) is called (line 26)
Call ==
    /\ pc = "idle"
    /\ upload_pc = "idle"
    /\ \E h \in Hints, r \in BOOLEAN :
           /\ hint' = h
           /\ image_type' = h
           /\ readable' = r
    /\ pc' = "entered"
    /\ calls' = <<"process_image">>
    /\ exception' = None
    /\ result' = <<>>
    /\ detected' = NoFrame
    /\ text' = <<>>
    /\ speeds' = <<>>
    /\ locations' = <<>>
    /\ colors' = NoFrame
    /\ traffic_conditions' = <<>>
    /\ UNCHANGED <<extracted_data, np_random_draws, upload_vars>>

\* lines 31-32 and 52-74: image_type = self._detect_image_type(image_path)
DetectImageType ==
    /\ pc = "entered"
    /\ wants_detection(image_type)
    /\ \/ /\ ~readable
          /\ Raise(Cv2Error)
          /\ calls' = Append(calls, "_detect_image_type")
          /\ UNCHANGED <<image_type, detected>>
       \/ /\ readable
          /\ Raise(TesseractError)
          /\ calls' = Append(calls, "_detect_image_type")
          /\ UNCHANGED <<image_type, detected>>
       \/ /\ readable
          /\ \E t \in OcrTexts, h \in HLineCounts, v \in VLineCounts :
                 LET lowered == str_lower(t)
                 IN /\ image_type' = detect_image_type(lowered, h, v)
                    /\ detected' = [ocr |-> t, text |-> lowered,
                                    h_lines |-> h, v_lines |-> v]
                    /\ calls' =
                           IF keyword_label(lowered) = ""
                           THEN calls \o <<"_detect_image_type",
                                           "_detect_table_structure">>
                           ELSE Append(calls, "_detect_image_type")
          /\ pc' = "classified"
          /\ UNCHANGED <<exception, result>>
    /\ UNCHANGED <<hint, readable, text, speeds, locations, colors,
                   traffic_conditions, extracted_data,
                   np_random_draws, upload_vars>>

\* lines 34-43: the if/elif chain enters one processor
Dispatch ==
    /\ \/ pc = "classified"
       \/ pc = "entered" /\ ~wants_detection(image_type)
    /\ pc' = dispatch(image_type)
    /\ calls' = Append(calls, dispatch(image_type))
    /\ detected' = NoFrame
    /\ UNCHANGED <<hint, image_type, readable, text, speeds, locations,
                   colors, traffic_conditions, exception, result,
                   extracted_data,
                   np_random_draws, upload_vars>>

\* _process_traffic_map, lines 80-100: imread, cvtColor, OCR, the two findall
ProcessTrafficMapRead ==
    /\ pc = "_process_traffic_map"
    /\ \/ /\ ~readable
          /\ Raise(Cv2Error)
          /\ UNCHANGED <<text, speeds, locations>>
       \/ /\ readable
          /\ Raise(TesseractError)
          /\ UNCHANGED <<text, speeds, locations>>
       \/ /\ readable
          /\ \E t \in OcrTexts :
                 /\ text' = t
                 /\ speeds' = find_speeds(t)
                 /\ locations' = find_locations(t)
          /\ pc' = "_detect_traffic_colors"
          /\ UNCHANGED <<exception, result>>
    /\ UNCHANGED <<hint, image_type, readable, detected, colors,
                   traffic_conditions, calls, extracted_data,
                   np_random_draws, upload_vars>>

\* line 103: traffic_conditions = self._detect_traffic_colors(image)
DetectTrafficColors ==
    /\ pc = "_detect_traffic_colors"
    /\ \E raster \in HsvRasters :
           /\ colors' = detect_traffic_colors(raster)
           /\ traffic_conditions' = detect_traffic_colors(raster).returned
    /\ pc' = "combine"
    /\ calls' = Append(calls, "_detect_traffic_colors")
    /\ UNCHANGED <<hint, image_type, readable, detected, text, speeds,
                   locations, exception, result, extracted_data,
                   np_random_draws, upload_vars>>

\* lines 105-118: the loop over locations[:5] and the return
ProcessTrafficMapCombine ==
    /\ pc = "combine"
    /\ \E rand \in [1..fallback_draws(locations, speeds) ->
                        np_random_randint(20, 60)] :
           result' = process_traffic_map(locations, speeds,
                                         traffic_conditions, rand)
    /\ np_random_draws' =
           Min(np_random_draws + fallback_draws(locations, speeds), MaxDraws)
    /\ pc' = "returned"
    /\ colors' = NoFrame
    /\ UNCHANGED <<hint, image_type, readable, detected, text, speeds,
                   locations, traffic_conditions, exception, calls,
                   extracted_data, upload_vars>>

\* _process_chart, lines 124-150
ProcessChart ==
    /\ pc = "_process_chart"
    /\ \/ /\ ~readable
          /\ Raise(Cv2Error)
          /\ UNCHANGED <<text, calls>>
       \/ /\ readable
          /\ Raise(TesseractError)
          /\ UNCHANGED <<text, calls>>
       \/ /\ readable
          /\ \E t \in OcrTexts, circles_found \in CirclesFound,
                rectangles \in RectanglesFound :
                 /\ text' = t
                 /\ result' =
                        process_chart(
                            t, detect_chart_type(circles_found, rectangles))
          /\ calls' = Append(calls, "_detect_chart_type")
          /\ pc' = "returned"
          /\ UNCHANGED exception
    /\ UNCHANGED <<hint, image_type, readable, detected, speeds, locations,
                   colors, traffic_conditions, extracted_data,
                   np_random_draws, upload_vars>>

\* _process_screenshot, lines 156-181: imread gives None for an unreadable
\* file and pytesseract refuses it
ProcessScreenshot ==
    /\ pc = "_process_screenshot"
    /\ \/ /\ ~readable
          /\ Raise(UnsupportedImage)
          /\ UNCHANGED <<text, calls>>
       \/ /\ readable
          /\ Raise(TesseractError)
          /\ UNCHANGED <<text, calls>>
       \/ /\ readable
          /\ \E t \in OcrTexts :
                 /\ text' = t
                 /\ result' = process_screenshot(t)
          /\ calls' = Append(calls, "_extract_traffic_info")
          /\ pc' = "returned"
          /\ UNCHANGED exception
    /\ UNCHANGED <<hint, image_type, readable, detected, speeds, locations,
                   colors, traffic_conditions, extracted_data,
                   np_random_draws, upload_vars>>

\* _process_table, lines 187-218
ProcessTable ==
    /\ pc = "_process_table"
    /\ \/ /\ ~readable
          /\ Raise(Cv2Error)
          /\ UNCHANGED text
       \/ /\ readable
          /\ Raise(TesseractError)
          /\ UNCHANGED text
       \/ /\ readable
          /\ \E t \in OcrTexts :
                 /\ text' = t
                 /\ IF process_table(t).raised
                    THEN Raise(ValueError)
                    ELSE /\ result' = process_table(t).value
                         /\ pc' = "returned"
                         /\ UNCHANGED exception
    /\ UNCHANGED <<hint, image_type, readable, detected, speeds, locations,
                   colors, traffic_conditions, calls, extracted_data,
                   np_random_draws, upload_vars>>

\* _generic_ocr_processing, lines 224-235
GenericOcrProcessing ==
    /\ pc = "_generic_ocr_processing"
    /\ \/ /\ ~readable
          /\ Raise(UnsupportedImage)
          /\ UNCHANGED text
       \/ /\ readable
          /\ Raise(TesseractError)
          /\ UNCHANGED text
       \/ /\ readable
          /\ \E t \in OcrTexts :
                 /\ text' = t
                 /\ result' = generic_ocr_processing(t)
          /\ pc' = "returned"
          /\ UNCHANGED exception
    /\ UNCHANGED <<hint, image_type, readable, detected, speeds, locations,
                   colors, traffic_conditions, calls, extracted_data,
                   np_random_draws, upload_vars>>

\* the frame of a call of process_image is gone
FrameGone ==
    /\ pc' = "idle"
    /\ hint' = ""
    /\ image_type' = ""
    /\ readable' = TRUE
    /\ detected' = NoFrame
    /\ text' = <<>>
    /\ speeds' = <<>>
    /\ locations' = <<>>
    /\ colors' = NoFrame
    /\ traffic_conditions' = <<>>
    /\ exception' = None
    /\ result' = <<>>
    /\ calls' = <<>>

\* the caller has the result and the call's frame is gone; self is ready
\* for the next call
Return ==
    /\ pc = "returned"
    /\ upload_pc = "idle"
    /\ FrameGone
    /\ UNCHANGED <<extracted_data, np_random_draws, upload_vars>>

\* a caller calls process_image(filepath) on the file named filename: the
\* hint is the default 'auto'
CallOn(filename) ==
    /\ pc' = "entered"
    /\ hint' = "auto"
    /\ image_type' = "auto"
    /\ readable' = image_at(filename).readable
    /\ calls' = <<"process_image">>
    /\ UNCHANGED <<detected, text, speeds, locations, colors,
                   traffic_conditions, exception, result>>

\* web_app.py lines 63-73: a POST to /upload arrives; request_files is None
\* when the request has no 'files' field
UploadFiles ==
    /\ upload_pc = "idle"
    /\ pc = "idle"
    /\ \E request_files \in {None} \cup {Some(l) : l \in FileLists} :
           IF request_files = None
           THEN /\ response' = [status |-> 400,
                                body   |-> [error |-> "No files provided"]]
                /\ upload_pc' = "responded"
                /\ UNCHANGED <<files, file_index, results>>
           ELSE LET list == CHOOSE l \in request_files : TRUE
                IN IF \A i \in DOMAIN list : list[i] = <<>>
                   THEN /\ response' =
                               [status |-> 400,
                                body   |-> [error |-> "No files selected"]]
                        /\ upload_pc' = "responded"
                        /\ UNCHANGED <<files, file_index, results>>
                   ELSE /\ files' = list
                        /\ file_index' = 1
                        /\ results' = <<>>
                        /\ upload_pc' = "loop"
                        /\ UNCHANGED response
    /\ UNCHANGED <<pc, hint, image_type, readable, detected, text, speeds,
                   locations, colors, traffic_conditions, exception, result,
                   calls, extracted_data, np_random_draws, uploads, saved,
                   visualized>>

\* web_app.py lines 75-88: the next file of the loop; an allowed file is
\* stored and process_image is called on it, any other file is passed over
UploadNextFile ==
    /\ upload_pc = "loop"
    /\ file_index <= Len(files)
    /\ LET file == files[file_index]
       IN IF file # <<>> /\ allowed_file(file)
          THEN /\ uploads' = uploads \cup {upload_filepath(file)}
               /\ CallOn(file)
               /\ upload_pc' = "processing"
               /\ UNCHANGED file_index
          ELSE /\ file_index' = file_index + 1
               /\ UNCHANGED <<pc, hint, image_type, readable, detected, text,
                              speeds, locations, colors, traffic_conditions,
                              exception, result, calls, uploads, upload_pc>>
    /\ UNCHANGED <<extracted_data, np_random_draws, files, results, saved,
                   visualized, response>>

\* web_app.py lines 89-120: process_image has returned; the entry, the two
\* hooks, and the removal of the stored file
UploadCollect ==
    /\ upload_pc = "processing"
    /\ pc = "returned"
    /\ LET file == files[file_index]
           done == upload_entry(result, file)
       IN /\ results' = Append(results, done.entry)
          /\ saved' = saved \o done.saved
          /\ visualized' = visualized \o done.visualized
          /\ uploads' = uploads \ {upload_filepath(file)}
    /\ file_index' = file_index + 1
    /\ upload_pc' = "loop"
    /\ FrameGone
    /\ UNCHANGED <<extracted_data, np_random_draws, files, response>>

\* web_app.py lines 122-126: the loop is over
UploadRespond ==
    /\ upload_pc = "loop"
    /\ file_index > Len(files)
    /\ response' = [status |-> 200,
                    body   |-> [success         |-> TRUE,
                                results         |-> results,
                                processed_count |-> Len(results)]]
    /\ upload_pc' = "responded"
    /\ UNCHANGED <<pc, hint, image_type, readable, detected, text, speeds,
                   locations, colors, traffic_conditions, exception, result,
                   calls, extracted_data, np_random_draws, files, file_index,
                   results, uploads, saved, visualized>>

\* image_processor.py lines 446-449: process_uploaded_image(image_path)
\* makes a processor and calls process_image(image_path)
ProcessUploadedImage ==
    /\ upload_pc = "idle"
    /\ pc = "idle"
    /\ \E file \in Filenames :
           /\ files' = <<file>>
           /\ CallOn(file)
    /\ file_index' = 1
    /\ upload_pc' = "process_uploaded_image"
    /\ UNCHANGED <<extracted_data, np_random_draws, results, uploads, saved,
                   visualized, response>>

\* image_processor.py lines 451-470
ProcessUploadedImageReturn ==
    /\ upload_pc = "process_uploaded_image"
    /\ pc = "returned"
    /\ LET done == process_uploaded_image(result)
       IN /\ response' = done.returned
          /\ saved' = saved \o done.saved
          /\ visualized' = visualized \o done.visualized
    /\ upload_pc' = "responded"
    /\ FrameGone
    /\ UNCHANGED <<extracted_data, np_random_draws, files, file_index,
                   results, uploads>>

\* the caller's frame is gone; what stays is the upload folder and the
\* generator
CallerGone ==
    /\ upload_pc = "responded"
    /\ upload_pc' = "idle"
    /\ files' = <<>>
    /\ file_index' = 0
    /\ results' = <<>>
    /\ saved' = <<>>
    /\ visualized' = <<>>
    /\ response' = <<>>
    /\ UNCHANGED <<pc, hint, image_type, readable, detected, text, speeds,
                   locations, colors, traffic_conditions, exception, result,
                   calls, extracted_data, np_random_draws, uploads>>

Next ==
    \/ Call
    \/ DetectImageType
    \/ Dispatch
    \/ ProcessTrafficMapRead
    \/ DetectTrafficColors
    \/ ProcessTrafficMapCombine
    \/ ProcessChart
    \/ ProcessScreenshot
    \/ ProcessTable
    \/ GenericOcrProcessing
    \/ Return
    \/ UploadFiles
    \/ UploadNextFile
    \/ UploadCollect
    \/ UploadRespond
    \/ ProcessUploadedImage
    \/ ProcessUploadedImageReturn
    \/ CallerGone

Spec ==
    Init /\ [][Next]_vars

-----------------------------------------------------------------------------
(* Vocabulary of the properties.                                           *)

Returned ==
    pc = "returned"

TypedHints ==
    {"traffic_map", "chart", "screenshot", "table"}

\* the result built by the except clause: an error and no payload, no kind
IsFailureResult(r) ==
    /\ DOMAIN r = {"error", "data"}
    /\ r.data = None

\* an error message with at least one character in it
NonEmptyMessage(msg) ==
    \E i \in DOMAIN msg : msg[i] # ""

\* a result with a kind and a payload and no error field
IsSuccessResult(r) ==
    /\ "type" \in DOMAIN r
    /\ "error" \notin DOMAIN r
    /\ \/ "data" \in DOMAIN r /\ r.data # None
       \/ r.type = "generic" /\ {"text", "numbers"} \subseteq DOMAIN r

\* the payload of a result that has one
Payload(r) ==
    CHOOSE d \in r.data : TRUE

-----------------------------------------------------------------------------
(* C1: for every hint in {traffic_map, chart, screenshot, table} and every *)
(* image, process_image returns a result whose 'type' equals the hint.     *)
(* As stated this fails: an unreadable image gives the failure result,     *)
(* which has no 'type'.                                                    *)
C1_KindMatchesHint ==
    Returned /\ hint \in TypedHints
        => "type" \in DOMAIN result /\ result.type = hint

\* C1 as amended: for every hint in {traffic_map, chart, screenshot, table}
\* the returned result either has 'type' equal to the hint or is the failure
\* result of the except clause (error set, data None, no type); an unreadable
\* image always gives the failure result, and a result returned without an
\* exception always has the hint as its type.
C1_KindMatchesHintUnlessFailure ==
    Returned /\ hint \in TypedHints
        => /\ IsFailureResult(result) \/ ("type" \in DOMAIN result
                                          /\ result.type = hint)
           /\ ~readable => IsFailureResult(result)
           /\ exception = None => ("type" \in DOMAIN result
                                   /\ result.type = hint)

C1_Witness ==
    /\ Returned
    /\ hint = "table"
    /\ exception = None
    /\ "type" \in DOMAIN result
    /\ result.type = "table"

-----------------------------------------------------------------------------
(* C2: a failure raised inside the classifier or inside any processor      *)
(* never escapes process_image: once an exception has been raised the call *)
(* has returned a result that holds a non-empty 'error' and data None and  *)
(* nothing else, for every hint including auto; an unreadable image ends   *)
(* every call this way.                                                    *)
C2_FailureNeverEscapes ==
    /\ exception # None
           => /\ Returned
              /\ IsFailureResult(result)
              /\ NonEmptyMessage(result.error)
    /\ Returned /\ ~readable => exception # None
    /\ pc \in {"idle", "entered", "classified", "_process_traffic_map",
               "_process_chart", "_process_screenshot", "_process_table",
               "_generic_ocr_processing", "_detect_traffic_colors",
               "combine", "returned"}

C2_Witness ==
    /\ Returned
    /\ hint = "auto"
    /\ ~readable
    /\ exception = Some(Cv2Error)
    /\ IsFailureResult(result)

-----------------------------------------------------------------------------
(* C3: every result returned by process_image is exactly one of an error   *)
(* result (error set, payload empty, no success kind) or a success result  *)
(* (kind and payload, no error); none carries both a kind and an error.    *)
C3_ErrorOrSuccess ==
    Returned
        => /\ IsFailureResult(result) \/ IsSuccessResult(result)
           /\ ~("type" \in DOMAIN result /\ "error" \in DOMAIN result)

-----------------------------------------------------------------------------
(* C4: with hint auto the label is decided, first match first, by the      *)
(* lowercased text and the table-structure signal: traffic keyword and map *)
(* keyword give traffic_map, else traffic and chart keyword give chart,    *)
(* else traffic and live keyword give screenshot; otherwise table          *)
(* structure gives table; otherwise chart.  Lack of signal is never an     *)
(* error, and 'speed 45 km/h traffic map downtown' without table structure *)
(* gives traffic_map.                                                      *)
HasKeyword(s, keywords) ==
    \E kw \in keywords :
        \E i \in 1..Len(s) :
            /\ i + Len(kw) - 1 <= Len(s)
            /\ \A k \in 1..Len(kw) : s[i + k - 1] = kw[k]

TableSignal ==
    detected.h_lines > 100 /\ detected.v_lines > 100

ExpectedLabel ==
    LET traffic == HasKeyword(detected.text, TrafficKeywords)
    IN CASE traffic /\ HasKeyword(detected.text, MapKeywords)
                -> "traffic_map"
         [] /\ traffic
            /\ ~HasKeyword(detected.text, MapKeywords)
            /\ HasKeyword(detected.text, ChartKeywords)
                -> "chart"
         [] /\ traffic
            /\ ~HasKeyword(detected.text, MapKeywords)
            /\ ~HasKeyword(detected.text, ChartKeywords)
            /\ HasKeyword(detected.text, LiveKeywords)
                -> "screenshot"
         [] OTHER -> IF TableSignal THEN "table" ELSE "chart"

C4_FirstMatchWins ==
    pc = "classified"
        => /\ image_type = ExpectedLabel
           /\ exception = None /\ result = <<>>
           /\ \A i \in DOMAIN detected.text : ~IsUpper(detected.text[i])
           /\ Len(detected.text) = Len(detected.ocr)
           /\ detected.ocr = T_spec_example /\ ~TableSignal
                  => image_type = "traffic_map"
           /\ detected.ocr = T_upper => image_type = "traffic_map"

C4_Witness ==
    /\ pc = "classified"
    /\ detected.ocr = T_spec_example
    /\ ~TableSignal
    /\ image_type = "traffic_map"

-----------------------------------------------------------------------------
(* C5: with hint auto, for every text that contains a traffic keyword the  *)
(* label is never table, whatever the structure detector reports.  As      *)
(* stated this fails: 'traffic 12' on an image with table structure is     *)
(* labelled table.                                                         *)
C5_NoTableWithTrafficKeyword ==
    pc = "classified" /\ HasKeyword(detected.text, TrafficKeywords)
        => image_type # "table"

\* C5 as amended: the label is never table when the text contains a traffic
\* keyword together with a map, chart or live keyword; a text with a traffic
\* keyword and none of those is labelled table exactly when the structure
\* detector reports table structure.
C5_TableOnlyWithoutSecondKeyword ==
    pc = "classified" /\ HasKeyword(detected.text, TrafficKeywords)
        => IF HasKeyword(detected.text,
                         MapKeywords \cup ChartKeywords \cup LiveKeywords)
           THEN image_type # "table"
           ELSE image_type = "table" <=> TableSignal

C5_Witness ==
    /\ pc = "classified"
    /\ detected.ocr = T_traffic_only
    /\ TableSignal
    /\ image_type = "table"

-----------------------------------------------------------------------------
(* C6: for every hint outside {auto, traffic_map, chart, screenshot,       *)
(* table} process_image runs the generic processor and neither the         *)
(* classifier nor a typed processor; unless the processor raised, the      *)
(* result has kind generic and holds the raw text and every numeric token  *)
(* of it.                                                                  *)
C6_UnknownHintRunsGeneric ==
    hint \notin ({"", "auto"} \cup TypedHints)
        => /\ \A i \in DOMAIN calls :
                  calls[i] \in {"process_image", "_generic_ocr_processing"}
           /\ pc \notin {"classified", "_process_traffic_map",
                         "_process_chart", "_process_screenshot",
                         "_process_table", "_detect_traffic_colors",
                         "combine"}
           /\ Returned
                  => /\ calls = <<"process_image", "_generic_ocr_processing">>
                     /\ exception # None => IsFailureResult(result)
                     /\ exception = None
                            => /\ DOMAIN result = {"type", "text", "numbers",
                                                   "extracted_count"}
                               /\ result.type = "generic"
                               /\ result.text = text
                               /\ Len(result.numbers) = Len(find_numbers(text))
                               /\ result.extracted_count = Len(result.numbers)
                               /\ text = T_traffic_only
                                      => result.numbers
                                             = <<[whole |-> 12, frac |-> <<>>]>>
                               /\ text = T_many_numbers
                                      => Len(result.numbers) = 25

C6_Witness ==
    /\ Returned
    /\ hint = "heatmap"
    /\ text = T_many_numbers
    /\ result.type = "generic"
    /\ result.extracted_count = 25

-----------------------------------------------------------------------------
(* C7: every success result, of every kind, carries an extracted_count     *)
(* equal to the number of primary items of its payload (locations, values, *)
(* rows, numbers).                                                         *)
PrimaryItems(r) ==
    CASE r.type = "traffic_map" -> Len(Payload(r).locations)
      [] r.type = "chart" -> Len(Payload(r).values)
      [] r.type = "table" -> Len(Payload(r))
      [] r.type = "generic" -> Len(r.numbers)
      [] r.type = "screenshot" ->
             Cardinality(
                 {f \in {"estimated_time", "distance", "traffic_level"} :
                      Payload(r).traffic_info[f] # None})

C7_ExtractedCount ==
    Returned /\ "type" \in DOMAIN result /\ "error" \notin DOMAIN result
        => /\ "extracted_count" \in DOMAIN result
           /\ result.extracted_count \in Nat
           /\ result.extracted_count = PrimaryItems(result)

-----------------------------------------------------------------------------
(* C8: in every traffic_map result locations, speeds and conditions have   *)
(* the same length n = min(5, number of location matches),                 *)
(* extracted_count = n, locations are the first n matches in text order,   *)
(* and speeds[i] is the i-th speed match when there is one and otherwise a *)
(* value v with 20 <= v < 60.                                              *)
W_Ash == <<"A", "s", "h">>
W_Elm == <<"E", "l", "m">>
W_Oak == <<"O", "a", "k">>
W_Fir == <<"F", "i", "r">>
W_Yew == <<"Y", "e", "w">>

\* the value of a string of digits, most significant first
RECURSIVE DecimalValue(_, _)
DecimalValue(digits, acc) ==
    IF digits = <<>> THEN acc
    ELSE DecimalValue(
             Tail(digits),
             10 * acc + CHOOSE d \in 0..9 : Digits[d + 1] = Head(digits))

C8_TrafficMapAligned ==
    Returned /\ "type" \in DOMAIN result /\ result.type = "traffic_map"
        => LET d == Payload(result)
               n == IF Len(locations) < 5 THEN Len(locations) ELSE 5
           IN /\ Len(d.locations) = n
              /\ Len(d.speeds) = n
              /\ Len(d.conditions) = n
              /\ result.extracted_count = n
              /\ \A i \in 1..n :
                     /\ d.locations[i] = locations[i]
                     /\ IF i <= Len(speeds)
                        THEN d.speeds[i] = DecimalValue(speeds[i], 0)
                        ELSE 20 <= d.speeds[i] /\ d.speeds[i] < 60
              /\ text = T_six_locations
                     => /\ d.locations = <<W_Ash, W_Elm, W_Oak, W_Fir, W_Yew>>
                        /\ SubSeq(d.speeds, 1, 4) = <<10, 20, 30, 40>>
                        /\ d.speeds[5] \in 20..59
              /\ text = T_upper
                     => /\ Len(d.locations) = 1
                        /\ d.speeds[1] \in 20..59

C8_Witness ==
    /\ Returned
    /\ "type" \in DOMAIN result
    /\ result.type = "traffic_map"
    /\ text = T_six_locations
    /\ Len(locations) = 6
    /\ result.extracted_count = 5
    /\ Payload(result).speeds[5] = 59

-----------------------------------------------------------------------------
(* C9: for every triple of pixel counts the segmenter returns Congested    *)
(* when red > green and red > yellow, else Moderate when yellow > green,   *)
(* else Good; every tie between the largest counts resolves to Good; an    *)
(* image all of whose pixels are pure red (hue 0), pure green (hue 60) or  *)
(* pure yellow (hue 30) yields that band's label.  As stated this fails: a *)
(* tie between red and yellow above green resolves to Moderate.            *)
InBand(pixel, low_hue, high_hue) ==
    /\ low_hue <= pixel[1] /\ pixel[1] <= high_hue
    /\ pixel[2] >= 50 /\ pixel[2] <= 255
    /\ pixel[3] >= 50 /\ pixel[3] <= 255

BandCount(low_hue, high_hue) ==
    Cardinality({i \in DOMAIN colors.hsv :
                     InBand(colors.hsv[i], low_hue, high_hue)})

GreenCount == BandCount(40, 80)

YellowCount == BandCount(20, 40)

RedCount == BandCount(0, 10)

SegmenterLabel ==
    colors.returned[1]

DominanceRule ==
    SegmenterLabel =
        IF RedCount > GreenCount /\ RedCount > YellowCount THEN "Congested"
        ELSE IF YellowCount > GreenCount THEN "Moderate"
        ELSE "Good"

AllPixels(pixel) ==
    \A i \in DOMAIN colors.hsv : colors.hsv[i] = pixel

PureBands ==
    /\ AllPixels(<<0, 255, 255>>) => SegmenterLabel = "Congested"
    /\ AllPixels(<<60, 255, 255>>) => SegmenterLabel = "Good"
    /\ AllPixels(<<30, 255, 255>>) => SegmenterLabel = "Moderate"

\* at least two of the three counts share the largest value
TieAtTop ==
    LET top == CHOOSE m \in {GreenCount, YellowCount, RedCount} :
                   \A k \in {GreenCount, YellowCount, RedCount} : k <= m
    IN \/ GreenCount = top /\ YellowCount = top
       \/ GreenCount = top /\ RedCount = top
       \/ YellowCount = top /\ RedCount = top

C9_TiesFavorGood ==
    pc = "combine"
        => /\ DominanceRule
           /\ PureBands
           /\ TieAtTop => SegmenterLabel = "Good"

\* C9 as amended: the same rule and the same pure-band results; a tie at the
\* top in which green takes part resolves to Good, and a tie between red and
\* yellow above green resolves to Moderate.
C9_TiesWithGreenFavorGood ==
    pc = "combine"
        => /\ DominanceRule
           /\ PureBands
           /\ colors.green_pixels = GreenCount
           /\ colors.yellow_pixels = YellowCount
           /\ colors.red_pixels = RedCount
           /\ TieAtTop /\ GreenCount >= YellowCount /\ GreenCount >= RedCount
                  => SegmenterLabel = "Good"
           /\ RedCount = YellowCount /\ YellowCount > GreenCount
                  => SegmenterLabel = "Moderate"

C9_Witness ==
    /\ pc = "combine"
    /\ RedCount = YellowCount
    /\ YellowCount > GreenCount
    /\ SegmenterLabel = "Moderate"

-----------------------------------------------------------------------------
(* C10: the three hue bands of the segmenter are pairwise disjoint: no     *)
(* pixel is counted in more than one of the green, yellow and red counts.  *)
C10_BandsDisjoint ==
    pc = "combine"
        => \A i \in DOMAIN colors.hsv :
               Cardinality({m \in {"green_mask", "yellow_mask", "red_mask"} :
                                colors[m][i] # 0}) <= 1

-----------------------------------------------------------------------------
(* C11: in every chart result, values holds the first min(24, k) numeric   *)
(* tokens of the text in order, k being the number of tokens found: 24 of  *)
(* them when k > 24 and all k otherwise; labels is as long as values with  *)
(* labels[i] = 'Hour i' counted from 0; extracted_count is that length.    *)

\* a returned result of kind chart
ChartReturned ==
    /\ Returned
    /\ exception = None
    /\ "type" \in DOMAIN result
    /\ result.type = "chart"

C11_ChartSeries ==
    ChartReturned =>
        LET tokens == find_numbers(text)
            k == Len(tokens)
            n == IF k > 24 THEN 24 ELSE k
            d == Payload(result)
        IN /\ Len(d.values) = n
           /\ \A i \in 1..n : d.values[i] = py_float(tokens[i])
           /\ Len(d.labels) = n
           /\ \A i \in 1..n : d.labels[i] = <<"Hour ", i - 1>>
           /\ result.extracted_count = n

\* the text of 25 numbers was read: 24 values, the second is 2.5 and the
\* last is 24
C11_Witness ==
    /\ ChartReturned
    /\ text = T_many_numbers
    /\ Len(find_numbers(text)) = 25
    /\ Len(Payload(result).values) = 24
    /\ Payload(result).values[2] = [whole |-> 2, frac |-> <<"5">>]
    /\ Payload(result).values[24] = [whole |-> 24, frac |-> <<>>]
    /\ Payload(result).labels[24] = <<"Hour ", 23>>
    /\ result.extracted_count = 24

-----------------------------------------------------------------------------
(* Vocabulary of the table properties.                                     *)

\* the table processor has read a text: the call went to _process_table and
\* neither the image load nor the OCR raised
TableRead ==
    /\ Returned
    /\ image_type = "table"
    /\ readable
    /\ exception \notin {Some(Cv2Error), Some(TesseractError)}

\* the cells of the non-empty lines of s that have more than one cell, in
\* line order
ValidLines(s) ==
    LET lines == str_split_lines(s)
        cells == [i \in DOMAIN lines |-> split_cells(str_strip(lines[i]))]
        IsValid(c) == c # <<<<>>>> /\ Len(c) > 1
    IN SelectSeq(cells, IsValid)

W_Name == <<"N", "a", "m", "e">>
W_Speed == <<"S", "p", "e", "e", "d">>

-----------------------------------------------------------------------------
(* C12: the table processor keeps, in order, only the non-empty lines that *)
(* split into more than one cell; when at least two such lines remain the  *)
(* first is the header and each later line becomes one row that maps       *)
(* header[j] to its j-th cell, in line order; 'Name  Speed\nA  45\nB  30'  *)
(* gives exactly the rows {Name: A, Speed: 45} and {Name: B, Speed: 30}.   *)
C12_TableRows ==
    TableRead =>
        LET kept == ValidLines(text)
        IN /\ Len(kept) >= 2 =>
                  /\ "type" \in DOMAIN result
                  /\ result.type = "table"
                  /\ result.data # None
                  /\ LET rows == Payload(result)
                         header == kept[1]
                     IN /\ Len(rows) = Len(kept) - 1
                        /\ \A r \in 1..Len(rows) :
                               \A j \in 1..Len(header) :
                                   j <= Len(kept[r + 1]) =>
                                       rows[r][header[j]] =
                                           Some(kept[r + 1][j])
           /\ text = T_table =>
                  /\ result.data # None
                  /\ Payload(result) =
                         << (W_Name :> Some(<<"A">>))
                                @@ (W_Speed :> Some(<<"4", "5">>)),
                            (W_Name :> Some(<<"B">>))
                                @@ (W_Speed :> Some(<<"3", "0">>)) >>

-----------------------------------------------------------------------------
(* C13: when the text has fewer than two valid lines the table processor   *)
(* returns an empty table of kind table, and that outcome is not reported  *)
(* through the result's error field.                                       *)
C13_EmptyTableNotError ==
    (TableRead /\ Len(ValidLines(text)) < 2) =>
        /\ "type" \in DOMAIN result
        /\ result.type = "table"
        /\ result.data = Some(<<>>)
        /\ "error" \notin DOMAIN result

-----------------------------------------------------------------------------
(* C14: a table in which some data row has a different number of cells     *)
(* than the header row is not fatal: the call returns a table result with  *)
(* rows and not the processing-failure result.                             *)
C14_MismatchNotFatal ==
    TableRead =>
        LET kept == ValidLines(text)
        IN (/\ Len(kept) >= 2
            /\ \E r \in 2..Len(kept) : Len(kept[r]) # Len(kept[1])) =>
               /\ ~IsFailureResult(result)
               /\ "type" \in DOMAIN result
               /\ result.type = "table"
               /\ "rows" \in DOMAIN result

-----------------------------------------------------------------------------
(* C15: process_image calls are independent and order-insensitive: no call *)
(* changes state that a later call reads, so that the result for an image  *)
(* and a hint does not depend on the calls made before.  The state that    *)
(* outlives a call is the processor's extracted_data and the position of   *)
(* numpy's global generator, from which line 107 draws the fallback speed. *)
C15_CallsIndependent ==
    [][/\ extracted_data' = extracted_data
       /\ np_random_draws' = np_random_draws]_vars

-----------------------------------------------------------------------------
(* Vocabulary of the screenshot properties.                                *)

\* a returned result of kind screenshot
ScreenshotReturned ==
    /\ Returned
    /\ exception = None
    /\ "type" \in DOMAIN result
    /\ result.type = "screenshot"

\* the text read, in lower case, contains one of the words
Mentions(words) ==
    \E w \in words : str_contains(str_lower(text), w)

W_heavy == <<"h", "e", "a", "v", "y">>
W_congested == <<"c", "o", "n", "g", "e", "s", "t", "e", "d">>
W_slow == <<"s", "l", "o", "w">>
W_moderate == <<"m", "o", "d", "e", "r", "a", "t", "e">>
W_medium == <<"m", "e", "d", "i", "u", "m">>
W_light == <<"l", "i", "g", "h", "t">>
W_clear == <<"c", "l", "e", "a", "r">>
W_good == <<"g", "o", "o", "d">>

-----------------------------------------------------------------------------
(* C16: the traffic-level extractor tests the keyword sets in the order    *)
(* Heavy, Moderate, Light: a text containing heavy, congested or slow      *)
(* gives Heavy even if it also contains moderate/medium or                 *)
(* light/clear/good; otherwise moderate or medium gives Moderate;          *)
(* otherwise light, clear or good gives Light; otherwise the field is      *)
(* absent (None).                                                          *)
C16_TrafficLevelPriority ==
    ScreenshotReturned =>
        LET level == Payload(result).traffic_info.traffic_level
            heavy == Mentions({W_heavy, W_congested, W_slow})
            moderate == Mentions({W_moderate, W_medium})
            light == Mentions({W_light, W_clear, W_good})
        IN /\ heavy => level = Some("Heavy")
           /\ ~heavy /\ moderate => level = Some("Moderate")
           /\ ~heavy /\ ~moderate /\ light => level = Some("Light")
           /\ ~heavy /\ ~moderate /\ ~light => level = None

\* a text with words of all three levels, the heavy one last, gave Heavy
C16_Witness ==
    /\ ScreenshotReturned
    /\ text = T_levels_all
    /\ Mentions({W_slow}) /\ Mentions({W_medium}) /\ Mentions({W_good})
    /\ Payload(result).traffic_info.traffic_level = Some("Heavy")

-----------------------------------------------------------------------------
(* C17: the app-type test maps the text to a tag in priority order: a text *)
(* containing 'google maps' or 'maps' gives google_maps; otherwise 'waze'  *)
(* gives waze; otherwise 'apple maps' gives apple_maps; otherwise unknown; *)
(* and each of the four tags google_maps, waze, apple_maps and unknown is  *)
(* produced for some text.                                                 *)
W_google_maps == <<"g", "o", "o", "g", "l", "e", " ", "m", "a", "p", "s">>
W_maps == <<"m", "a", "p", "s">>
W_waze == <<"w", "a", "z", "e">>
W_apple_maps == <<"a", "p", "p", "l", "e", " ", "m", "a", "p", "s">>

AppTags ==
    {"google_maps", "waze", "apple_maps", "unknown"}

\* the tag is the one the priority order gives, in the data and in the
\* result's app_detected
AppTypePriority ==
    ScreenshotReturned =>
        LET tag == IF Mentions({W_google_maps, W_maps}) THEN "google_maps"
                   ELSE IF Mentions({W_waze}) THEN "waze"
                   ELSE IF Mentions({W_apple_maps}) THEN "apple_maps"
                   ELSE "unknown"
        IN /\ Payload(result).app_type = tag
           /\ result.app_detected = tag

\* the tags the screenshot processor gives for the texts of the model
ProducedTags ==
    {process_screenshot(t).app_detected : t \in Texts}

C17_AppTypeTags ==
    /\ AppTypePriority
    /\ \A tag \in AppTags : tag \in ProducedTags

-----------------------------------------------------------------------------
(* C18: the segmenter always returns a list of exactly 5 entries, all      *)
(* equal to the one dominant label; the traffic_map processor uses at most *)
(* 5 locations, so every condition of a traffic_map result is that label   *)
(* and the 'Moderate' fallback for a missing condition is never taken.     *)
C18_ConditionsAreDominantLabel ==
    /\ pc = "combine" =>
           /\ Len(traffic_conditions) = 5
           /\ traffic_conditions = colors.returned
           /\ \A i \in 1..5 :
                  /\ traffic_conditions[i] = traffic_conditions[1]
                  /\ traffic_conditions[i] \in {"Good", "Moderate", "Congested"}
           /\ DominanceRule
    /\ (Returned /\ "type" \in DOMAIN result /\ result.type = "traffic_map")
           => LET conditions == Payload(result).conditions
              IN /\ Len(conditions) <= Len(traffic_conditions)
                 /\ \A i \in 1..Len(conditions) :
                        conditions[i] = traffic_conditions[1]

\* five locations were used and the label was not the fallback's
C18_Witness ==
    /\ Returned
    /\ "type" \in DOMAIN result
    /\ result.type = "traffic_map"
    /\ text = T_six_locations
    /\ Len(traffic_conditions) = 5
    /\ Payload(result).conditions =
           <<"Congested", "Congested", "Congested", "Congested", "Congested">>

-----------------------------------------------------------------------------
(* C19: with hint auto the classifier returns only traffic_map, chart,     *)
(* screenshot or table: the generic processor is never run and no result   *)
(* of kind generic is produced on the auto path; a generic result comes    *)
(* only from a hint outside auto and those four.                           *)
C19_AutoNeverGeneric ==
    /\ hint = "auto" =>
           /\ pc = "classified" => image_type \in TypedHints
           /\ pc # "_generic_ocr_processing"
           /\ \A i \in DOMAIN calls : calls[i] # "_generic_ocr_processing"
           /\ (Returned /\ "type" \in DOMAIN result)
                  => result.type \in TypedHints
           /\ (Returned /\ exception = None)
                  => /\ "type" \in DOMAIN result
                     /\ result.type = image_type
    /\ (Returned /\ "type" \in DOMAIN result /\ result.type = "generic")
           => hint \notin ({"auto"} \cup TypedHints)

\* a text without any signal was classified by default and processed as a
\* chart
C19_Witness ==
    /\ hint = "auto"
    /\ Returned
    /\ exception = None
    /\ calls = <<"process_image", "_detect_image_type",
                 "_detect_table_structure", "_process_chart",
                 "_detect_chart_type">>
    /\ result.type = "chart"

-----------------------------------------------------------------------------
(* C20: in the upload handler, for every list of uploaded files: each file *)
(* with an allowed extension contributes exactly one entry to results, a   *)
(* success or an error, and every other file contributes none, so that     *)
(* processed_count is the number of allowed files; a result that has an    *)
(* 'error' key is never passed to save_extracted_data nor to the           *)
(* visualization step; and the stored upload is removed after its          *)
(* processing, on the success and on the failure path.                     *)

\* the name ends in a dot and one of the seven extensions, in any letter case
AllowedName(filename) ==
    \E i \in DOMAIN filename :
        /\ filename[i] = "."
        /\ \A j \in (i + 1)..Len(filename) : filename[j] # "."
        /\ \E e \in {<<"p", "n", "g">>, <<"j", "p", "g">>,
                     <<"j", "p", "e", "g">>, <<"g", "i", "f">>,
                     <<"b", "m", "p">>, <<"t", "i", "f", "f">>,
                     <<"p", "d", "f">>} :
               str_lower(SubSeq(filename, i + 1, Len(filename))) = e

AllowedFiles(list) ==
    SelectSeq(list, AllowedName)

\* upload_files has answered with its list of results
UploadAnswered ==
    /\ upload_pc = "responded"
    /\ "status" \in DOMAIN response
    /\ response.status = 200

\* an entry is a success with its data file or an error
IsEntryOf(entry, filename) ==
    /\ entry.filename = filename
    /\ \/ "error" \in DOMAIN entry
       \/ "data_file" \in DOMAIN entry /\ "type" \in DOMAIN entry

-----------------------------------------------------------------------------
(* The visualization hook and the results it makes no figure for.          *)

\* a result of a kind other than traffic_map, chart and table, or a table
\* with no rows
NoVisualizationKind(r) ==
    /\ "type" \in DOMAIN r
    /\ \/ r.type \notin {"traffic_map", "chart", "table"}
       \/ r.type = "table" /\ r.data = Some(<<>>)

\* a caller's record of a success: no error, the data file under file_key
\* and no visualization under viz_key
RecordedAsSuccess(entry, file_key, viz_key) ==
    /\ "error" \notin DOMAIN entry
    /\ file_key \in DOMAIN entry
    /\ viz_key \notin DOMAIN entry

\* process_uploaded_image has returned its result
ProcessUploadedImageReturned ==
    /\ upload_pc = "responded"
    /\ "status" \notin DOMAIN response

\* C21: the visualization hook returns None for every result of a kind
\* other than traffic_map, chart and table and for a table with no rows,
\* and each caller records such a result as a success: without an error,
\* with its data file and without a visualization entry.
C21_NoVisualizationIsNormal ==
    /\ pc = "returned" /\ NoVisualizationKind(result)
           => create_visualization_from_extracted_data(result) = None
    /\ UploadAnswered
           => \A i \in DOMAIN response.body.results :
                  NoVisualizationKind(response.body.results[i])
                      => RecordedAsSuccess(response.body.results[i],
                                           "data_file", "visualization_file")
    /\ ProcessUploadedImageReturned /\ NoVisualizationKind(response)
           => RecordedAsSuccess(response, "output_file", "visualization")

====
